---- MODULE Spec2Model ----
(***************************************************************************)
(* Model of sos/__init__.py: the SoS entry point (argument parsing,       *)
(* component lookup and construction) and SoSComponent (signal handler,   *)
(* three-stage option resolution, workspace and logging provisioning).    *)
(*                                                                         *)
(* Python values are tagged records so that None, booleans, integers and  *)
(* strings can be compared with each other.                               *)
(***************************************************************************)
EXTENDS Integers, Sequences, FiniteSets, TLC

VARIABLES
    argv,            \* sys.argv[1:] as typed by the user
    components,      \* SoS._components: name -> component class
    parserDefaults,  \* parser -> (dest -> action.default), mutable
    clsDefaults,     \* SoSComponent._arg_defaults (class attribute, shared)
    args,            \* SoS.args, the namespace parsed at line 210
    pc,              \* position of the main thread
    handlerInstalled,\* SIGTERM handler of the instance is installed
    exit_process,    \* SoSComponent.exit_process
    opts,            \* the local `opts` of load_options
    self_opts,       \* SoSComponent.opts
    confRead,        \* configuration files read: sequence of [path, content]
    tmpdir,          \* SoSComponent.tmpdir
    nextFile,        \* files handed out by tempfile_util.new()
    soslog,          \* handlers of logging.getLogger('sos')
    ui_log,          \* handlers of logging.getLogger('sos_ui')
    raised,          \* exceptions raised so far: sequence of [cls, at]
    printed,         \* lines written to the terminal
    exitCode,        \* process exit status, NotExited while running
    executeCalls,    \* number of calls of the component's execute()
    execResult       \* [returned: by the component's execute(), handed: by SoS.execute]

vars == <<argv, components, parserDefaults, clsDefaults, args, pc,
          handlerInstalled, exit_process, opts, self_opts, confRead, tmpdir,
          nextFile, soslog, ui_log, raised, printed, exitCode, executeCalls,
          execResult>>

----------------------------------------------------------------------------
(* Bounds *)

\* largest number of -v flags typed on the command line
MaxVerbose == 2

\* largest number of occurrences of a list-typed option on the command line
MaxOccurrences == 2

\* the verbosity value a configuration file sets when it sets verbosity
ConfVerbosity == 2

----------------------------------------------------------------------------
(* Python values *)

PyNone == [k |-> "none", b |-> FALSE, n |-> 0, s |-> "", l |-> <<>>]
PyBool(x) == [k |-> "bool", b |-> x, n |-> 0, s |-> "", l |-> <<>>]
PyInt(x) == [k |-> "int", b |-> FALSE, n |-> x, s |-> "", l |-> <<>>]
PyStr(x) == [k |-> "str", b |-> FALSE, n |-> 0, s |-> x, l |-> <<>>]
PyList(x) == [k |-> "list", b |-> FALSE, n |-> 0, s |-> "", l |-> x]

\* Python truth value of v, as used by `and`, `or` and `if`
Truthy(v) ==
    CASE v.k = "none" -> FALSE
      [] v.k = "bool" -> v.b
      [] v.k = "int" -> v.n # 0
      [] v.k = "str" -> v.s # ""
      [] v.k = "list" -> v.l # <<>>

\* the integer a value compares as (bool is a subclass of int)
AsInt(v) == IF v.k = "bool" THEN (IF v.b THEN 1 ELSE 0) ELSE v.n

EmptyDict == [x \in {} |-> PyNone]

\* dict.update: a updated with b
DictUpdate(a, b) ==
    [x \in (DOMAIN a) \cup (DOMAIN b) |-> IF x \in DOMAIN b THEN b[x] ELSE a[x]]

\* logging levels
DEBUG == 10
INFO == 20
WARNING == 30
ERROR == 40

\* exitCode while the process is still running
NotExited == 0 - 1

\* argparse.SUPPRESS
SUPPRESS == PyStr("==SUPPRESS==")

----------------------------------------------------------------------------
(* Class attributes and the parsers *)

\* SoSComponent._arg_defaults as the class body defines it
SharedArgDefaults ==
    [config_file |-> PyStr("/etc/sos.conf"),
     quiet |-> PyBool(FALSE),
     tmp_dir |-> PyStr(""),
     sysroot |-> PyNone,
     verbosity |-> PyInt(0)]

\* the options every component shares
OptNames == DOMAIN SharedArgDefaults

\* the action defaults _add_common_options declares on a component's parser
CommonOptionDefaults ==
    [config_file |-> PyStr("/etc/sos.conf"),
     quiet |-> PyBool(FALSE),
     sysroot |-> PyNone,
     tmp_dir |-> PyNone,
     verbosity |-> PyInt(0)]

\* the names registered in SoS._components
ComponentNames == {"report"}

\* The component classes a name can be bound to: subclasses of SoSComponent
\* may override arg_defaults (here: nothing, or the shared key verbosity)
\* and configure_logging.
ComponentClasses ==
    { [arg_defaults |-> d, configure_logging |-> l,
       parser_options |-> EmptyDict] :
        d \in {EmptyDict, [verbosity |-> PyInt(1)]}, l \in BOOLEAN }

\* Component classes with a list-typed option of their own: skip_plugins is
\* declared in arg_defaults with an empty list, and add_parser_options adds
\* it to the component's parser with action 'extend' and a default of None
\* or of an empty list.
ExtendComponentClasses ==
    { [arg_defaults |-> [skip_plugins |-> PyList(<<>>)],
       configure_logging |-> l,
       parser_options |-> [skip_plugins |-> d]] :
        l \in BOOLEAN, d \in {PyNone, PyList(<<>>)} }

\* action defaults of the parsers SoS.__init__ builds: the top-level parser
\* holds the help action and the subparsers action (dest 'component'), each
\* component's parser holds the common options
InitialParserDefaults(comps) ==
    [p \in {"top"} \cup ComponentNames |->
        IF p = "top"
        THEN [help |-> SUPPRESS, component |-> PyNone]
        ELSE DictUpdate(CommonOptionDefaults, comps[p].parser_options)]

\* the parser SoS._init_component hands to the component as self.parser
ComponentParser == "top"

\* the command lines: a subcommand name and, for a registered one, the common
\* options typed after it (PyNone / FALSE / 0: not typed); skip holds the
\* values of the occurrences of a list-typed option, in the order typed
CommandLines ==
    { [component |-> "bogus", config_file |-> PyNone, quiet |-> FALSE,
       sysroot |-> PyNone, tmp_dir |-> PyNone, nverbose |-> 0,
       skip |-> <<>>] }
    \cup
    [component : ComponentNames,
     config_file : {PyNone, PyStr("/cli.conf")},
     quiet : BOOLEAN,
     sysroot : {PyNone, PyStr("/cli/root")},
     tmp_dir : {PyNone, PyStr("/cli/tmp")},
     nverbose : 0 .. MaxVerbose,
     skip : {<<>>}]

\* sequences over S of length at most n
SeqsUpTo(S, n) == UNION { [1 .. k -> S] : k \in 0 .. n }

\* command lines for a component with the list-typed option: it is typed
\* up to MaxOccurrences times, next to -q
ExtendCommandLines ==
    [component : ComponentNames,
     config_file : {PyNone},
     quiet : BOOLEAN,
     sysroot : {PyNone},
     tmp_dir : {PyNone},
     nverbose : {0},
     skip : SeqsUpTo({"a", "b"}, MaxOccurrences)]

\* what one action of a component's parser leaves in the namespace:
\* 'store' keeps the typed string, 'store_true' stores True, 'count' adds the
\* number of occurrences to the default (None counting as 0), 'extend'
\* (SosListOption) accumulates the occurrences in the order typed; an option
\* that was not typed gets the action's default
ActionResult(dest, typed, default) ==
    CASE dest = "quiet" -> IF typed.quiet THEN PyBool(TRUE) ELSE default
      [] dest = "verbosity" ->
            IF typed.nverbose = 0 THEN default
            ELSE PyInt((IF default = PyNone THEN 0 ELSE AsInt(default))
                       + typed.nverbose)
      [] dest = "skip_plugins" ->
            IF typed.skip = <<>> THEN default
            ELSE PyList((IF default.k = "list" THEN default.l ELSE <<>>)
                        \o typed.skip)
      [] OTHER -> IF typed[dest] # PyNone THEN typed[dest] ELSE default

\* ArgumentParser.parse_args() of the top-level parser on the command line
\* `typed`: an unregistered subcommand is an argparse error; otherwise the
\* namespace holds dest 'component' and the selected component parser's dests
ParseOk(typed) == typed.component \in ComponentNames

ParseArgsNamespace(pd, typed) ==
    [d \in {"component"} \cup DOMAIN pd[typed.component] |->
        IF d = "component" THEN PyStr(typed.component)
        ELSE ActionResult(d, typed, pd[typed.component][d])]

\* load_options lines 105-107: every action of `parser` whose default is not
\* SUPPRESS gets the default None
SuppressDefaults(pd, parser) ==
    [pd EXCEPT ![parser] =
        [d \in DOMAIN pd[parser] |->
            IF pd[parser][d] # SUPPRESS THEN PyNone ELSE pd[parser][d]]]

----------------------------------------------------------------------------
(* SoSOptions (sos.options) *)

\* SoSOptions(arg_defaults=d): every recognised option seeded with its
\* default
SoSOptionsInit(d) ==
    [exists |-> TRUE, vals |-> d, setby |-> [o \in DOMAIN d |-> "default"]]

\* the option set before it is created
NoOpts == [exists |-> FALSE, vals |-> EmptyDict, setby |-> EmptyDict]

\* SoSOptions().from_args(namespace): the command-line option set; None is
\* the value of an option that was not supplied
FromArgs(ns) ==
    [exists |-> TRUE, vals |-> ns, setby |-> [o \in DOMAIN ns |-> "cli"]]

\* opts.merge(cmdopts): every recognised option that cmdopts supplies
\* (a value other than None) overwrites the seeded value
MergeOpts(o, cmdopts) ==
    LET supplied(x) == x \in DOMAIN cmdopts.vals /\ cmdopts.vals[x] # PyNone IN
    [o EXCEPT
        !.vals = [x \in DOMAIN o.vals |->
                    IF supplied(x) THEN cmdopts.vals[x] ELSE o.vals[x]],
        !.setby = [x \in DOMAIN o.vals |->
                    IF supplied(x) THEN "cli" ELSE o.setby[x]]]

\* the contents a configuration file can have: malformed, or key/value pairs
\* for some of the options `names` the component recognises
ConfContents(names) ==
    { [bad |-> TRUE, kv |-> EmptyDict] }
    \cup
    { [bad |-> FALSE,
       kv |-> [x \in keys |->
                 CASE x = "config_file" -> PyStr("/conf.conf")
                   [] x = "quiet" -> PyBool(q)
                   [] x = "tmp_dir" -> PyStr("/conf/tmp")
                   [] x = "sysroot" -> PyStr("/conf/root")
                   [] x = "verbosity" -> PyInt(ConfVerbosity)
                   [] x = "skip_plugins" -> PyList(<<"c">>)]] :
        keys \in SUBSET names, q \in BOOLEAN }

\* opts.update_from_conf(path) on a well-formed file: its values are merged
\* only into recognised options the command-line merge left unset; the
\* values of a list-typed option are appended to the sequence held
UpdateFromConf(o, content) ==
    LET isList(x) == o.vals[x].k = "list"
        takes(x) == x \in DOMAIN content.kv
                    /\ (o.setby[x] = "default" \/ isList(x))
    IN
    [o EXCEPT
        !.vals = [x \in DOMAIN o.vals |->
                    IF ~takes(x) THEN o.vals[x]
                    ELSE IF isList(x)
                         THEN PyList(o.vals[x].l \o content.kv[x].l)
                         ELSE content.kv[x]],
        !.setby = [x \in DOMAIN o.vals |->
                    IF takes(x) /\ o.setby[x] = "default" THEN "file"
                    ELSE o.setby[x]]]

----------------------------------------------------------------------------
(* load_options, stage by stage *)

\* line 103: the option set seeded from the (updated) class defaults
LoadOptionsSeeded(defaults) == SoSOptionsInit(defaults)

\* faulty variant of LoadOptionsCmdlineMerged: the command-line merge is
\* left out
LoadOptionsCmdlineNotMerged(o, ns) == o

\* lines 110-111: the re-parsed command line merged over the seeded values
LoadOptionsCmdlineMerged(o, ns) == MergeOpts(o, FromArgs(ns))

\* faulty variant of ConfPath: the built-in path is read whatever the
\* option set holds
ConfPathBuiltin(o) == PyStr("/etc/sos.conf")

\* line 114: the path handed to update_from_conf
ConfPath(o) == o.vals["config_file"]

----------------------------------------------------------------------------
(* _setup_logging *)

\* level of a handler whose setLevel was never called
NOTSET == 0

FileHandler(level, f) == [sink |-> "file", level |-> level, file |-> f]
ConsoleHandler(sink, level) == [sink |-> sink, level |-> level, file |-> 0]

\* faulty variant of FlogLevel: the file sink is raised to DEBUG in the
\* first branch only
FlogLevelHighOnly(o) ==
    LET v == o.vals["verbosity"]
    IN  IF ~Truthy(o.vals["quiet"]) /\ Truthy(v) /\ AsInt(v) > 1
        THEN DEBUG ELSE INFO

\* level of flog: it starts at INFO (line 130); lines 138 and 141 raise it,
\* and both sit inside `if not self.opts.quiet`
FlogLevel(o) ==
    LET v == o.vals["verbosity"]
        high == Truthy(v) /\ AsInt(v) > 1
        some == Truthy(v) /\ AsInt(v) > 0
    IN  IF Truthy(o.vals["quiet"]) THEN INFO
        ELSE IF high THEN DEBUG
        ELSE IF some THEN DEBUG
        ELSE INFO

\* faulty variant of ConsoleLevel: the elif branch is missing
ConsoleLevelNoElif(o) ==
    LET v == o.vals["verbosity"]
    IN  IF Truthy(v) /\ AsInt(v) > 1 THEN DEBUG ELSE WARNING

\* lines 136-143: level of the stdout handler of logger 'sos'
ConsoleLevel(o) ==
    LET v == o.vals["verbosity"]
        high == Truthy(v) /\ AsInt(v) > 1
        some == Truthy(v) /\ AsInt(v) > 0
    IN  IF high THEN DEBUG ELSE IF some THEN INFO ELSE WARNING

\* lines 124-149: the handlers added to logger 'sos', in addHandler order;
\* o is self.opts, f the file get_temp_file returned
SosLogHandlers(o, f) ==
    <<FileHandler(FlogLevel(o), f)>>
    \o (IF Truthy(o.vals["quiet"]) THEN <<>>
        ELSE <<ConsoleHandler("stdout", ConsoleLevel(o)),
               ConsoleHandler("stderr", ERROR)>>)

\* faulty variant of UiLogHandlers: the console handler is added whatever
\* quiet is
UiLogHandlersConsoleAlways(o, f) ==
    <<FileHandler(NOTSET, f), ConsoleHandler("stdout", INFO)>>

\* faulty variant of UiLogHandlers: the file handler is never added
UiLogHandlersNoFile(o, f) ==
    IF Truthy(o.vals["quiet"]) THEN <<>>
    ELSE <<ConsoleHandler("stdout", INFO)>>

\* lines 152-165: the handlers added to logger 'sos_ui'
UiLogHandlers(o, f) ==
    <<FileHandler(NOTSET, f)>>
    \o (IF Truthy(o.vals["quiet"]) THEN <<>>
        ELSE <<ConsoleHandler("stdout", INFO)>>)

\* tempfile.gettempdir()
GetTempDir == PyStr("/tmp")

\* line 77: the directory the workspace is created in
WorkspaceBase(o) ==
    IF Truthy(o.vals["tmp_dir"]) THEN o.vals["tmp_dir"] ELSE GetTempDir

----------------------------------------------------------------------------
(* Exceptions *)

\* the exception classes that derive from Exception; SystemExit derives from
\* BaseException only
ExceptionSubclasses == {"Exception", "KeyError", "ConfigParseError", "OSError"}

\* faulty variant of InitComponentCatches: a bare `except:` catches everything
InitComponentCatchesAll(cls) == TRUE

\* faulty variant of InitComponentCatches: `except KeyError` catches the
\* failed lookup only
InitComponentCatchesKeyError(cls) == cls = "KeyError"

\* line 243, `except Exception`: the classes the handler catches
InitComponentCatches(cls) == cls \in ExceptionSubclasses

\* positions that are inside the try block of lines 240-242
InTryPcs ==
    {"InitComponent", "InstallHandler", "UpdateArgDefaults", "LoadOptionsSeed",
     "LoadOptionsCmdline", "LoadOptionsConf", "MakeTmpDir", "SetupSosLog",
     "SetupUiLog"}

\* _exit(error=0): the status the exit handler's SystemExit carries
ExitDefaultError == 0

\* An exception of class cls raised at the current position: inside the try
\* block a caught one is printed and turned into sys.exit(1) (lines
\* 243-245); otherwise it leaves the program, a SystemExit silently with its
\* status, anything else as a traceback with status 1.
Unwind(cls, code, pcUncaught) ==
    /\ raised' = Append(raised, [cls |-> cls, at |-> pc])
    /\ IF pc \in InTryPcs /\ InitComponentCatches(cls)
       THEN /\ printed' = Append(printed, "Could not initialize")
            /\ exitCode' = 1
            /\ pc' = "Failed"
       ELSE /\ printed' = IF cls = "SystemExit" THEN printed
                          ELSE Append(printed, "Traceback")
            /\ exitCode' = IF cls = "SystemExit" THEN code ELSE 1
            /\ pc' = pcUncaught

----------------------------------------------------------------------------
(* SoS.execute *)

\* the values a component's execute() can return
ExecuteReturns == {PyNone, PyInt(0), PyInt(1)}

\* lines 247-248: SoS.execute calls the component's execute() and has no
\* return statement, so it hands back None whatever r the component returned
SoSExecuteResult(r) == PyNone

\* the exit status of a process ending with value v: None is success
ExitStatusOf(v) == IF v = PyNone THEN 0 ELSE AsInt(v)

----------------------------------------------------------------------------
(* The program *)

NoArgs == EmptyDict

Init ==
    /\ argv \in CommandLines
    /\ components \in [ComponentNames -> ComponentClasses]
    /\ parserDefaults = InitialParserDefaults(components)
    /\ clsDefaults = SharedArgDefaults
    /\ args = NoArgs
    /\ pc = "ParseArgs"
    /\ handlerInstalled = FALSE
    /\ exit_process = FALSE
    /\ opts = NoOpts
    /\ self_opts = NoOpts
    /\ confRead = <<>>
    /\ tmpdir = PyNone
    /\ nextFile = 0
    /\ soslog = <<>>
    /\ ui_log = <<>>
    /\ raised = <<>>
    /\ printed = <<>>
    /\ exitCode = NotExited
    /\ executeCalls = 0
    /\ execResult = [returned |-> PyNone, handed |-> PyNone]

\* the class of the component being constructed
Cls == components[argv.component]

\* SoS.__init__ line 210: self.args = self.parser.parse_args().  argparse
\* rejects an unregistered subcommand itself: usage and error on stderr,
\* exit status 2.
ParseArgs ==
    /\ pc = "ParseArgs"
    /\ IF ParseOk(argv)
       THEN /\ args' = ParseArgsNamespace(parserDefaults, argv)
            /\ pc' = "InitComponent"
            /\ UNCHANGED <<raised, printed, exitCode>>
       ELSE /\ raised' = Append(raised, [cls |-> "SystemExit", at |-> pc])
            /\ printed' = printed \o <<"usage", "error: invalid choice">>
            /\ exitCode' = 2
            /\ pc' = "Failed"
            /\ UNCHANGED args
    /\ UNCHANGED <<argv, components, parserDefaults, clsDefaults,
                   handlerInstalled, exit_process, opts, self_opts, confRead,
                   tmpdir, nextFile, soslog, ui_log, executeCalls,
                   execResult>>

\* _init_component lines 237-242 with SoSComponent.__init__ lines 62-65: an
\* unknown name is reported and then looked up all the same (KeyError
\* inside the try block); a known one starts the construction.
InitComponent ==
    /\ pc = "InitComponent"
    /\ LET com == args["component"].s
           unknown == com \notin DOMAIN components
           out == IF unknown THEN Append(printed, "Unknown subcommand")
                  ELSE printed
       IN IF unknown
          THEN /\ raised' = Append(raised, [cls |-> "KeyError", at |-> pc])
               /\ IF InitComponentCatches("KeyError")
                  THEN /\ printed' = Append(out, "Could not initialize")
                       /\ exitCode' = 1
                  ELSE /\ printed' = Append(out, "Traceback")
                       /\ exitCode' = 1
               /\ pc' = "Failed"
               /\ UNCHANGED exit_process
          ELSE /\ exit_process' = FALSE
               /\ pc' = "InstallHandler"
               /\ UNCHANGED <<raised, printed, exitCode>>
    /\ UNCHANGED <<argv, components, parserDefaults, clsDefaults, args,
                   handlerInstalled, opts, self_opts, confRead, tmpdir,
                   nextFile, soslog, ui_log, executeCalls,
                   execResult>>

\* faulty variant of InstallHandler: lines 67-71 moved to the end of the
\* constructor, so the handler is installed once construction is complete
InstallHandlerAfterProvisioning ==
    /\ \/ /\ pc = "InstallHandler"
          /\ pc' = "UpdateArgDefaults"
          /\ UNCHANGED handlerInstalled
       \/ /\ pc = "Ready"
          /\ ~handlerInstalled
          /\ handlerInstalled' = TRUE
          /\ UNCHANGED pc
    /\ UNCHANGED <<argv, components, parserDefaults, clsDefaults, args,
                   exit_process, opts, self_opts, confRead, tmpdir, nextFile,
                   soslog, ui_log, raised, printed, exitCode, executeCalls,
                   execResult>>

\* lines 67-71: signal.signal may fail, which is ignored
InstallHandler ==
    /\ pc = "InstallHandler"
    /\ \E ok \in BOOLEAN : handlerInstalled' = ok
    /\ pc' = "UpdateArgDefaults"
    /\ UNCHANGED <<argv, components, parserDefaults, clsDefaults, args,
                   exit_process, opts, self_opts, confRead, tmpdir, nextFile,
                   soslog, ui_log, raised, printed, exitCode, executeCalls,
                   execResult>>

\* line 74: the class-level dict is updated in place
UpdateArgDefaults ==
    /\ pc = "UpdateArgDefaults"
    /\ clsDefaults' = DictUpdate(clsDefaults, Cls.arg_defaults)
    /\ pc' = "LoadOptionsSeed"
    /\ UNCHANGED <<argv, components, parserDefaults, args, handlerInstalled,
                   exit_process, opts, self_opts, confRead, tmpdir, nextFile,
                   soslog, ui_log, raised, printed, exitCode, executeCalls,
                   execResult>>

\* load_options lines 103-107
LoadOptionsSeed ==
    /\ pc = "LoadOptionsSeed"
    /\ opts' = LoadOptionsSeeded(clsDefaults)
    /\ parserDefaults' = SuppressDefaults(parserDefaults, ComponentParser)
    /\ pc' = "LoadOptionsCmdline"
    /\ UNCHANGED <<argv, components, clsDefaults, args, handlerInstalled,
                   exit_process, self_opts, confRead, tmpdir, nextFile,
                   soslog, ui_log, raised, printed, exitCode, executeCalls,
                   execResult>>

\* load_options lines 110-111: the command line is parsed again and merged;
\* an argparse error would leave through SystemExit(2)
LoadOptionsCmdline ==
    /\ pc = "LoadOptionsCmdline"
    /\ IF ParseOk(argv)
       THEN /\ opts' = LoadOptionsCmdlineMerged(
                            opts, ParseArgsNamespace(parserDefaults, argv))
            /\ pc' = "LoadOptionsConf"
            /\ UNCHANGED <<raised, printed, exitCode>>
       ELSE /\ Unwind("SystemExit", 2, "Failed")
            /\ UNCHANGED opts
    /\ UNCHANGED <<argv, components, parserDefaults, clsDefaults, args,
                   handlerInstalled, exit_process, self_opts, confRead,
                   tmpdir, nextFile, soslog, ui_log, executeCalls,
                   execResult>>

\* load_options lines 114-116 and __init__ lines 75-76: the file named by
\* opts.config_file is read; a malformed file raises ConfigParseError, which
\* load_options does not handle
LoadOptionsConf ==
    /\ pc = "LoadOptionsConf"
    /\ \E content \in ConfContents(DOMAIN opts.vals) :
         /\ confRead' = Append(confRead,
                               [path |-> ConfPath(opts), content |-> content])
         /\ IF content.bad
            THEN /\ Unwind("ConfigParseError", 1, "Failed")
                 /\ UNCHANGED <<opts, self_opts>>
            ELSE /\ opts' = UpdateFromConf(opts, content)
                 /\ self_opts' = opts'
                 /\ pc' = IF Cls.configure_logging THEN "MakeTmpDir"
                          ELSE "Ready"
                 /\ UNCHANGED <<raised, printed, exitCode>>
    /\ UNCHANGED <<argv, components, parserDefaults, clsDefaults, args,
                   handlerInstalled, exit_process, tmpdir, nextFile, soslog,
                   ui_log, executeCalls,
                   execResult>>

\* faulty variant of MakeTmpDir: the directory chosen at line 77 is written
\* back into self.opts.tmp_dir
MakeTmpDirStoringBase ==
    /\ pc = "MakeTmpDir"
    /\ tmpdir' = WorkspaceBase(self_opts)
    /\ self_opts' = [self_opts EXCEPT !.vals["tmp_dir"] = WorkspaceBase(self_opts)]
    /\ pc' = "SetupSosLog"
    /\ UNCHANGED <<argv, components, parserDefaults, clsDefaults, args,
                   handlerInstalled, exit_process, opts, confRead, nextFile,
                   soslog, ui_log, raised, printed, exitCode, executeCalls,
                   execResult>>

\* lines 77-79: the workspace directory; mkdtemp can fail
MakeTmpDir ==
    /\ pc = "MakeTmpDir"
    /\ \/ /\ tmpdir' = WorkspaceBase(self_opts)
          /\ pc' = "SetupSosLog"
          /\ UNCHANGED <<raised, printed, exitCode>>
       \/ /\ Unwind("OSError", 1, "Failed")
          /\ UNCHANGED tmpdir
    /\ UNCHANGED <<argv, components, parserDefaults, clsDefaults, args,
                   handlerInstalled, exit_process, opts, self_opts, confRead,
                   nextFile, soslog, ui_log, executeCalls,
                   execResult>>

\* _setup_logging lines 124-149; get_temp_file can fail
SetupSosLog ==
    /\ pc = "SetupSosLog"
    /\ \/ /\ nextFile' = nextFile + 1
          /\ soslog' = soslog \o SosLogHandlers(self_opts, nextFile + 1)
          /\ pc' = "SetupUiLog"
          /\ UNCHANGED <<raised, printed, exitCode>>
       \/ /\ Unwind("OSError", 1, "Failed")
          /\ UNCHANGED <<nextFile, soslog>>
    /\ UNCHANGED <<argv, components, parserDefaults, clsDefaults, args,
                   handlerInstalled, exit_process, opts, self_opts, confRead,
                   tmpdir, ui_log, executeCalls,
                   execResult>>

\* _setup_logging lines 152-165, after which the constructor and
\* SoS.__init__ return
SetupUiLog ==
    /\ pc = "SetupUiLog"
    /\ \/ /\ nextFile' = nextFile + 1
          /\ ui_log' = ui_log \o UiLogHandlers(self_opts, nextFile + 1)
          /\ pc' = "Ready"
          /\ UNCHANGED <<raised, printed, exitCode>>
       \/ /\ Unwind("OSError", 1, "Failed")
          /\ UNCHANGED <<nextFile, ui_log>>
    /\ UNCHANGED <<argv, components, parserDefaults, clsDefaults, args,
                   handlerInstalled, exit_process, opts, self_opts, confRead,
                   tmpdir, soslog, executeCalls,
                   execResult>>

\* SoS.execute lines 247-248: the component's execute() is entered
Execute ==
    /\ pc = "Ready"
    /\ executeCalls' = executeCalls + 1
    /\ pc' = "Executing"
    /\ UNCHANGED <<argv, components, parserDefaults, clsDefaults, args,
                   handlerInstalled, exit_process, opts, self_opts, confRead,
                   tmpdir, nextFile, soslog, ui_log, raised, printed,
                   exitCode, execResult>>

\* the component's execute() returns a value, or raises; SoS.execute hands
\* its own result back to the caller, whose exit status it becomes
ExecuteEnds ==
    /\ pc = "Executing"
    /\ \/ \E r \in ExecuteReturns :
            /\ execResult' = [returned |-> r, handed |-> SoSExecuteResult(r)]
            /\ pc' = "Completed"
            /\ exitCode' = ExitStatusOf(SoSExecuteResult(r))
            /\ UNCHANGED <<raised, printed>>
       \/ /\ Unwind("Exception", 1, "Failed")
          /\ UNCHANGED execResult
    /\ UNCHANGED <<argv, components, parserDefaults, clsDefaults, args,
                   handlerInstalled, exit_process, opts, self_opts, confRead,
                   tmpdir, nextFile, soslog, ui_log, executeCalls>>

\* SIGTERM is delivered while the handler of lines 82-89 is installed: the
\* handler sets exit_process and raises SystemExit(0) at the position the
\* main thread is at
Signal ==
    /\ handlerInstalled
    /\ exitCode = NotExited
    /\ exit_process' = TRUE
    /\ Unwind("SystemExit", ExitDefaultError, "Terminated")
    /\ UNCHANGED <<argv, components, parserDefaults, clsDefaults, args,
                   handlerInstalled, opts, self_opts, confRead, tmpdir,
                   nextFile, soslog, ui_log, executeCalls,
                   execResult>>

Next ==
    \/ ParseArgs
    \/ InitComponent
    \/ InstallHandler
    \/ UpdateArgDefaults
    \/ LoadOptionsSeed
    \/ LoadOptionsCmdline
    \/ LoadOptionsConf
    \/ MakeTmpDir
    \/ SetupSosLog
    \/ SetupUiLog
    \/ Execute
    \/ ExecuteEnds
    \/ Signal

Spec == Init /\ [][Next]_vars

\* the program run with a component that declares the list-typed option
InitExtend ==
    /\ argv \in ExtendCommandLines
    /\ components \in [ComponentNames -> ExtendComponentClasses]
    /\ parserDefaults = InitialParserDefaults(components)
    /\ clsDefaults = SharedArgDefaults
    /\ args = NoArgs
    /\ pc = "ParseArgs"
    /\ handlerInstalled = FALSE
    /\ exit_process = FALSE
    /\ opts = NoOpts
    /\ self_opts = NoOpts
    /\ confRead = <<>>
    /\ tmpdir = PyNone
    /\ nextFile = 0
    /\ soslog = <<>>
    /\ ui_log = <<>>
    /\ raised = <<>>
    /\ printed = <<>>
    /\ exitCode = NotExited
    /\ executeCalls = 0
    /\ execResult = [returned |-> PyNone, handed |-> PyNone]

SpecExtend == InitExtend /\ [][Next]_vars

----------------------------------------------------------------------------
(* Vocabulary of the properties *)

Range(q) == { q[i] : i \in 1 .. Len(q) }

\* load_options has returned and its result is bound to self.opts
OptionsResolved == self_opts.exists

\* the user typed the option on the command line
TypedOnCli(o) ==
    CASE o = "quiet" -> argv.quiet
      [] o = "verbosity" -> argv.nverbose > 0
      [] OTHER -> argv[o] # PyNone

\* the value the user typed for it
CliValue(o) ==
    CASE o = "quiet" -> PyBool(TRUE)
      [] o = "verbosity" -> PyInt(argv.nverbose)
      [] OTHER -> argv[o]

\* the configuration file read by this construction
ConfWasRead == Len(confRead) > 0
LastConf == confRead[Len(confRead)].content
InConf(o) == ConfWasRead /\ o \in DOMAIN LastConf.kv

\* the default set of the component: shared defaults updated with its own
DeclaredDefaults == DictUpdate(SharedArgDefaults, Cls.arg_defaults)

\* the last exception raised
LastRaised == raised[Len(raised)]

\* positions inside SoSComponent.__init__
ConstructionPcs == InTryPcs \ {"InitComponent"}

\* a channel has a file sink on a file allocated in the workspace
HasWorkspaceFileSink(handlers) ==
    /\ tmpdir # PyNone
    /\ \E h \in Range(handlers) : h.sink = "file" /\ h.file \in 1 .. nextFile

----------------------------------------------------------------------------
(* C1 .. C10 *)

\* C1: an option typed on the command line and also set by the
\* configuration file resolves to the command-line value.
C1_CliWinsOverConf ==
    OptionsResolved =>
        \A o \in OptNames :
            (TypedOnCli(o) /\ InConf(o)) => self_opts.vals[o] = CliValue(o)

C1_Witness ==
    /\ OptionsResolved
    /\ argv.nverbose = 1 /\ InConf("verbosity")
    /\ argv.tmp_dir # PyNone /\ InConf("tmp_dir")
    /\ LastConf.kv["verbosity"] # CliValue("verbosity")
    /\ self_opts.vals["verbosity"] = PyInt(1)
    /\ self_opts.vals["tmp_dir"] = PyStr("/cli/tmp")

\* C2: an option not typed on the command line but set by the
\* configuration file resolves to the configuration-file value, for the
\* shared options quiet, verbosity, sysroot and tmp_dir too.
C2_ConfWinsOverDefault ==
    OptionsResolved =>
        \A o \in OptNames :
            (~TypedOnCli(o) /\ InConf(o)) => self_opts.vals[o] = LastConf.kv[o]

\* C3: an option of the default set that is neither typed nor set by the
\* configuration file resolves to its declared default, and the resolved
\* option set has every key of the default set.
C3_DefaultsKept ==
    OptionsResolved =>
        /\ DOMAIN DeclaredDefaults \subseteq DOMAIN self_opts.vals
        /\ \A o \in DOMAIN DeclaredDefaults :
              (~TypedOnCli(o) /\ ~InConf(o))
                  => self_opts.vals[o] = DeclaredDefaults[o]

\* C4: an unregistered subcommand ends the process with status 1 after
\* exactly one line saying the subcommand is unknown, and nothing is
\* constructed or executed.
C4_UnknownSubcommand ==
    (argv.component \notin ComponentNames /\ exitCode # NotExited) =>
        /\ exitCode = 1
        /\ printed = <<"Unknown subcommand">>
        /\ ~opts.exists
        /\ executeCalls = 0

\* C5: a failure raised during construction (option building, workspace
\* creation, logging setup) is caught by _init_component, reported as one
\* line, ends the process with status 1, and execute() is never invoked.
C5_ConstructionFailureCaught ==
    (Len(raised) > 0 /\ ~exit_process /\ raised[1].at \in ConstructionPcs) =>
        /\ pc = "Failed"
        /\ exitCode = 1
        /\ printed = <<"Could not initialize">>
        /\ executeCalls = 0

C5_Witness ==
    /\ pc = "Failed"
    /\ raised = <<[cls |-> "OSError", at |-> "SetupUiLog"]>>
    /\ printed = <<"Could not initialize">>

\* C6: a run ended by the termination-signal handler exits with a status
\* that is neither 0 nor 1.
C6_SignalExitCodeDistinct ==
    pc = "Terminated" => exitCode \notin {0, 1}

\* C7: a termination signal delivered once the handler is installed sets
\* exit_process and ends the run as Terminated through SystemExit; the run
\* does not complete and _init_component does not turn the exit into a
\* 'Could not initialize' failure.
C7_SignalTerminates ==
    /\ [][Signal => (exit_process' /\ pc' = "Terminated")]_vars
    /\ [](exit_process =>
            /\ pc = "Terminated"
            /\ exitCode # NotExited
            /\ LastRaised.cls = "SystemExit"
            /\ "Could not initialize" \notin Range(printed))

C7_Witness ==
    /\ pc = "Terminated"
    /\ exit_process
    /\ LastRaised.at = "MakeTmpDir"

C9_ConfParseErrorNotFatal ==
    (ConfWasRead /\ LastConf.bad) =>
        ~(exitCode # NotExited /\ LastRaised.cls = "ConfigParseError")

\* C10: with verbosity >= 2 the file sink of the internal channel is at
\* DEBUG, whether quiet is set or not.
C10_FileSinkDebugWhenVerbose ==
    (soslog # <<>> /\ AsInt(self_opts.vals["verbosity"]) >= 2) =>
        soslog[1].sink = "file" /\ soslog[1].level = DEBUG

----------------------------------------------------------------------------
(* C11 .. C20 *)

\* logging.Handler: a record of severity sev passes a handler whose level
\* is not above it
Accepts(h, sev) == sev >= h.level

\* _setup_logging has set up the internal channel from self.opts
SosLogSetUp == soslog # <<>>
ResolvedVerbosity == AsInt(self_opts.vals["verbosity"])
ResolvedQuiet == Truthy(self_opts.vals["quiet"])

\* the handlers of a channel that write to the given sink
SinksOf(handlers, sink) ==
    { i \in 1 .. Len(handlers) : handlers[i].sink = sink }

\* C11: with quiet unset the stdout sink of the internal channel accepts
\* WARNING and above and rejects INFO and DEBUG at verbosity 0, accepts INFO
\* and above (not DEBUG) at verbosity 1, and accepts DEBUG and above at
\* verbosity >= 2.
C11_ConsoleLevelByVerbosity ==
    (SosLogSetUp /\ ~ResolvedQuiet) =>
        \E i \in SinksOf(soslog, "stdout") :
            LET c == soslog[i] IN
            /\ ResolvedVerbosity = 0 =>
                  /\ Accepts(c, WARNING) /\ Accepts(c, ERROR)
                  /\ ~Accepts(c, INFO) /\ ~Accepts(c, DEBUG)
            /\ ResolvedVerbosity = 1 =>
                  /\ Accepts(c, INFO) /\ Accepts(c, WARNING)
                  /\ ~Accepts(c, DEBUG)
            /\ ResolvedVerbosity >= 2 =>
                  Accepts(c, DEBUG) /\ Accepts(c, INFO)

C11_Witness ==
    /\ SosLogSetUp /\ ~ResolvedQuiet
    /\ ResolvedVerbosity = 1
    /\ \E i \in SinksOf(soslog, "stdout") : soslog[i].level = INFO

\* C12: a list-typed option typed several times on the command line and
\* also set in the configuration file resolves to the command-line values in
\* the order typed followed by the configuration-file values.
C12_ListCliThenConf ==
    (OptionsResolved /\ argv.skip # <<>> /\ InConf("skip_plugins")) =>
        self_opts.vals["skip_plugins"]
            = PyList(argv.skip \o LastConf.kv["skip_plugins"].l)

C12_Witness ==
    /\ OptionsResolved
    /\ argv.skip = <<"a", "b">>
    /\ InConf("skip_plugins")
    /\ self_opts.vals["skip_plugins"] = PyList(<<"a", "b", "c">>)

\* C13: before load_options parses the command line, every action default
\* of the selected component's parser has been replaced by None.
C13_ParserDefaultsSuppressed ==
    pc = "LoadOptionsCmdline" =>
        \A d \in DOMAIN parserDefaults[argv.component] :
            parserDefaults[argv.component][d] = PyNone

C15_OptsStagesThenFrozen ==
    /\ [][opts' # opts =>
            \/ /\ pc = "LoadOptionsSeed"
               /\ ~opts.exists
               /\ opts'.vals = clsDefaults
               /\ \A o \in DOMAIN opts'.vals : opts'.setby[o] = "default"
            \/ /\ pc = "LoadOptionsCmdline"
               /\ \A o \in DOMAIN opts.vals : opts.setby[o] = "default"
               /\ \A o \in DOMAIN opts.vals : opts'.setby[o] \in {"default", "cli"}
            \/ /\ pc = "LoadOptionsConf"
               /\ \A o \in DOMAIN opts.vals : opts.setby[o] \in {"default", "cli"}
               /\ \E o \in DOMAIN opts.vals : opts'.setby[o] = "file"]_vars
    /\ [][self_opts.exists => (self_opts' = self_opts /\ opts' = opts)]_vars
    /\ [](self_opts.exists => self_opts = opts)

\* all three stages have acted and later steps have run
C15_Witness ==
    /\ pc = "Executing"
    /\ self_opts.exists
    /\ \E o \in OptNames : self_opts.setby[o] = "file"
    /\ \E o \in OptNames : self_opts.setby[o] = "cli"
    /\ \E o \in OptNames : self_opts.setby[o] = "default"

C17_SinkInventory ==
    (pc \in {"Ready", "Executing", "Completed"} /\ Cls.configure_logging) =>
        /\ Cardinality(SinksOf(soslog, "file")) = 1
        /\ Cardinality(SinksOf(ui_log, "file")) = 1
        /\ \A i \in SinksOf(soslog, "file"), j \in SinksOf(ui_log, "file") :
              /\ soslog[i].file # ui_log[j].file
              /\ {soslog[i].file, ui_log[j].file} \subseteq 1 .. nextFile
        /\ tmpdir # PyNone
        /\ IF ResolvedQuiet
           THEN /\ Len(soslog) = 1
                /\ Len(ui_log) = 1
           ELSE /\ Len(soslog) = 3
                /\ Cardinality(SinksOf(soslog, "stdout")) = 1
                /\ \E i \in SinksOf(soslog, "stderr") : soslog[i].level = ERROR
                /\ Len(ui_log) = 2
                /\ \E i \in SinksOf(ui_log, "stdout") : ui_log[i].level = INFO

C17_Witness ==
    /\ pc = "Ready" /\ Cls.configure_logging
    /\ ResolvedQuiet
    /\ Len(soslog) = 1 /\ Len(ui_log) = 1

\* C19: the configuration file read is the path typed with --config-file,
\* and /etc/sos.conf otherwise; it is the config_file value of the option
\* set after the command-line merge, and it is read exactly once per
\* construction.
C19_ConfPathRead ==
    /\ [](/\ Len(confRead) <= 1
          /\ OptionsResolved => Len(confRead) = 1
          /\ ConfWasRead =>
                confRead[1].path = IF TypedOnCli("config_file")
                                   THEN CliValue("config_file")
                                   ELSE PyStr("/etc/sos.conf"))
    /\ [][confRead' # confRead =>
            /\ pc = "LoadOptionsConf"
            /\ confRead'[Len(confRead')].path = opts.vals["config_file"]]_vars

C19_Witness ==
    /\ OptionsResolved
    /\ TypedOnCli("config_file")
    /\ confRead[1].path = PyStr("/cli.conf")

\* C20: constructing a component leaves SoSComponent._arg_defaults as the
\* class body defines it.
C20_SharedDefaultsUnchanged ==
    clsDefaults = SharedArgDefaults

\* C18: the component's execute() is invoked exactly once, only after the
\* construction has completed, and the value it returns is the value
\* SoS.execute hands back, which becomes the process exit status.
C18_ExecuteOnceResultHandedBack ==
    /\ executeCalls <= 1
    /\ executeCalls = 1 =>
          (self_opts.exists /\ "Could not initialize" \notin Range(printed))
    /\ pc = "Completed" =>
          /\ executeCalls = 1
          /\ execResult.handed = execResult.returned
          /\ exitCode = ExitStatusOf(execResult.returned)

====
